---------------------------- MODULE Spec2Model ----------------------------
(***************************************************************************)
(* A model of quik-rs: the hysteresis crossover signal state machine       *)
(* (src/src/signal.rs, identical logic in src/src/trade.rs) and the two    *)
(* orchestration loops of the repository, bot.rs `trade` and main.rs       *)
(* `run_main_loop` (with ema.rs `Ema::calc`).                              *)
(*                                                                         *)
(* Floating point values are modelled by integers and the percentage       *)
(* (short - long) / long * 100 by the exact fraction, compared by cross    *)
(* multiplication; rounding of f64 is not modelled.                        *)
(***************************************************************************)
EXTENDS Integers, Sequences, FiniteSets, TLC

(***************************************************************************)
(* Bounds of the model.                                                    *)
(***************************************************************************)
\* largest hysteresis_periods tried
MaxPeriods == 3
\* cap of time_in_state (a usize in the code): update is not called beyond it
MaxTime == 4
\* largest hysteresis_percentage tried
MaxHPct == 2
\* number of update calls counted by the history variable nCalls
MaxCalls == 5

\* the long EMA the inputs are built around
BaseLong == 100

\* the <<short_ema, long_ema>> pairs tried: around a positive long EMA, with
\* long_ema = 0, and with a negative long EMA
Inputs == {<<s, BaseLong>> : s \in (BaseLong - MaxHPct - 1) .. (BaseLong + MaxHPct + 1)}
            \cup {<<0, 0>>, <<BaseLong, 0>>, <<0 - BaseLong, 0>>}
            \cup {<<0 - (BaseLong + MaxHPct + 1), 0 - BaseLong>>, <<BaseLong, 0 - BaseLong>>}

States == {"Above", "Below", "Between"}
Signals == {"Buy", "Sell"}
None == "None"

(***************************************************************************)
(* CrossoverSignal                                                         *)
(***************************************************************************)
CrossoverSignal == [hysteresis_percentage : 1 .. MaxHPct,
                    hysteresis_periods : 0 .. MaxPeriods,
                    state : States,
                    time_in_state : 0 .. MaxTime,
                    last_signal : Signals \cup {None}]

new(hysteresis_percentage, hysteresis_periods) ==
    [hysteresis_percentage |-> hysteresis_percentage,
     hysteresis_periods |-> hysteresis_periods,
     state |-> "Between",
     time_in_state |-> 0,
     last_signal |-> None]

\* ema_diff / long_ema * 100.0 as the fraction <<numerator, denominator>>
ema_percentage(short_ema, long_ema) == <<(short_ema - long_ema) * 100, long_ema>>

\* fraction f > k, and f < k, for a denominator # 0
FracGt(f, k) == IF f[2] > 0 THEN f[1] > k * f[2] ELSE f[1] < k * f[2]
FracLt(f, k) == IF f[2] > 0 THEN f[1] < k * f[2] ELSE f[1] > k * f[2]
FracEq(f, k) == f[1] = k * f[2]

\* a plausible slip: non-strict comparisons
new_state_nonstrict(self, short_ema, long_ema) ==
    LET p == ema_percentage(short_ema, long_ema) IN
    IF ~FracLt(p, self.hysteresis_percentage) THEN "Above"
    ELSE IF ~FracGt(p, 0 - self.hysteresis_percentage) THEN "Below"
    ELSE "Between"

\* let new_state = if ema_percentage > h { Above } else if ema_percentage < -h { Below } else { Between }
new_state(self, short_ema, long_ema) ==
    LET p == ema_percentage(short_ema, long_ema) IN
    IF FracGt(p, self.hysteresis_percentage) THEN "Above"
    ELSE IF FracLt(p, 0 - self.hysteresis_percentage) THEN "Below"
    ELSE "Between"

\* a plausible slip: a change of state does not restart the counter
change_state_noreset(self, ns) ==
    [self EXCEPT !.state = ns, !.time_in_state = self.time_in_state + 1]

\* if new_state == self.state { time_in_state += 1 } else { state = new_state; time_in_state = 1 }
change_state(self, ns) ==
    IF ns = self.state
    THEN [self EXCEPT !.time_in_state = self.time_in_state + 1]
    ELSE [self EXCEPT !.state = ns, !.time_in_state = 1]

\* a plausible slip: the last_signal check is left out, the signal fires on
\* every tick spent beyond the period threshold
emit_refire(self) ==
    IF self.state = "Above" /\ self.time_in_state >= self.hysteresis_periods
    THEN [self |-> [self EXCEPT !.last_signal = "Buy"], ret |-> "Buy"]
    ELSE IF self.state = "Below" /\ self.time_in_state >= self.hysteresis_periods
    THEN [self |-> [self EXCEPT !.last_signal = "Sell"], ret |-> "Sell"]
    ELSE IF self.state = "Between"
    THEN [self |-> [self EXCEPT !.time_in_state = 0], ret |-> None]
    ELSE [self |-> self, ret |-> None]

\* a plausible slip: the threshold is compared with > instead of >=
emit_late(self) ==
    IF self.state = "Above" /\ self.time_in_state > self.hysteresis_periods
          /\ self.last_signal # "Buy"
    THEN [self |-> [self EXCEPT !.last_signal = "Buy"], ret |-> "Buy"]
    ELSE IF self.state = "Below" /\ self.time_in_state > self.hysteresis_periods
          /\ self.last_signal # "Sell"
    THEN [self |-> [self EXCEPT !.last_signal = "Sell"], ret |-> "Sell"]
    ELSE IF self.state = "Between"
    THEN [self |-> [self EXCEPT !.time_in_state = 0], ret |-> None]
    ELSE [self |-> self, ret |-> None]

\* a plausible slip: entering Between forgets the last signal
emit_forget(self) ==
    IF self.state = "Above" /\ self.time_in_state >= self.hysteresis_periods
          /\ self.last_signal # "Buy"
    THEN [self |-> [self EXCEPT !.last_signal = "Buy"], ret |-> "Buy"]
    ELSE IF self.state = "Below" /\ self.time_in_state >= self.hysteresis_periods
          /\ self.last_signal # "Sell"
    THEN [self |-> [self EXCEPT !.last_signal = "Sell"], ret |-> "Sell"]
    ELSE IF self.state = "Between"
    THEN [self |-> [self EXCEPT !.time_in_state = 0, !.last_signal = None],
          ret |-> None]
    ELSE [self |-> self, ret |-> None]

\* a plausible slip: the period threshold is not checked at all
emit_nothreshold(self) ==
    IF self.state = "Above" /\ self.last_signal # "Buy"
    THEN [self |-> [self EXCEPT !.last_signal = "Buy"], ret |-> "Buy"]
    ELSE IF self.state = "Below" /\ self.last_signal # "Sell"
    THEN [self |-> [self EXCEPT !.last_signal = "Sell"], ret |-> "Sell"]
    ELSE IF self.state = "Between"
    THEN [self |-> [self EXCEPT !.time_in_state = 0], ret |-> None]
    ELSE [self |-> self, ret |-> None]

\* a plausible slip: the Between arm leaves the counter alone
emit_nozero(self) ==
    IF self.state = "Above" /\ self.time_in_state >= self.hysteresis_periods
          /\ self.last_signal # "Buy"
    THEN [self |-> [self EXCEPT !.last_signal = "Buy"], ret |-> "Buy"]
    ELSE IF self.state = "Below" /\ self.time_in_state >= self.hysteresis_periods
          /\ self.last_signal # "Sell"
    THEN [self |-> [self EXCEPT !.last_signal = "Sell"], ret |-> "Sell"]
    ELSE [self |-> self, ret |-> None]

\* match self.state { Above => .., Below => .., Between => time_in_state = 0 }; None
emit(self) ==
    IF self.state = "Above" /\ self.time_in_state >= self.hysteresis_periods
          /\ self.last_signal # "Buy"
    THEN [self |-> [self EXCEPT !.last_signal = "Buy"], ret |-> "Buy"]
    ELSE IF self.state = "Below" /\ self.time_in_state >= self.hysteresis_periods
          /\ self.last_signal # "Sell"
    THEN [self |-> [self EXCEPT !.last_signal = "Sell"], ret |-> "Sell"]
    ELSE IF self.state = "Between"
    THEN [self |-> [self EXCEPT !.time_in_state = 0], ret |-> None]
    ELSE [self |-> self, ret |-> None]

\* a plausible slip: the guard against long_ema == 0 is left out; 0.0 / 0.0 is
\* NaN and x / 0.0 is an infinity in f64
update_noguard(self, short_ema, long_ema) ==
    IF long_ema = 0
    THEN emit(change_state(self, IF short_ema > 0 THEN "Above"
                                 ELSE IF short_ema < 0 THEN "Below"
                                 ELSE "Between"))
    ELSE emit(change_state(self, new_state(self, short_ema, long_ema)))

\* CrossoverSignal::update: the machine after the call and the value returned
update(self, short_ema, long_ema) ==
    IF long_ema = 0
    THEN [self |-> self, ret |-> None]
    ELSE emit(change_state(self, new_state(self, short_ema, long_ema)))

(***************************************************************************)
(* Trans2QUIK result codes                                                 *)
(***************************************************************************)
\* enum Trans2QuikResult, the variants with a discriminant, in its order
Trans2QuikResult ==
    <<"Success", "Failed", "TerminalNotFound", "DllVersionNotSupported",
      "AlreadyConnectedToQuik", "WrongSyntax", "QuikNotConnected", "DllNotConnected",
      "QuikConnected", "QuikDisconnected", "DllConnected", "DllDisconnected",
      "MemoryAllocationError", "WrongConnectionHandle", "WrongInputParams">>

\* a plausible slip: a code outside the enumeration counts as Failed
Trans2QuikResult_from_failed(code) ==
    IF code \in 0 .. 14 THEN Trans2QuikResult[code + 1] ELSE "Failed"

\* impl From<c_long> for Trans2QuikResult
Trans2QuikResult_from(code) ==
    CASE code = 0 -> "Success"
      [] code = 1 -> "Failed"
      [] code = 2 -> "TerminalNotFound"
      [] code = 3 -> "DllVersionNotSupported"
      [] code = 4 -> "AlreadyConnectedToQuik"
      [] code = 5 -> "WrongSyntax"
      [] code = 6 -> "QuikNotConnected"
      [] code = 7 -> "DllNotConnected"
      [] code = 8 -> "QuikConnected"
      [] code = 9 -> "QuikDisconnected"
      [] code = 10 -> "DllConnected"
      [] code = 11 -> "DllDisconnected"
      [] code = 12 -> "MemoryAllocationError"
      [] code = 13 -> "WrongConnectionHandle"
      [] code = 14 -> "WrongInputParams"
      [] OTHER -> "Unknown"

\* the native return codes tried in the loops: success, failed, terminal not
\* found, library version not supported, already connected, the four answers of
\* the link probes, and a code outside the enumeration
NativeCodes == {0, 1, 2, 3, 4, 6, 7, 8, 10, 99}

\* length of the message buffer in the model (vec![0 as c_char; 256] in quik.rs)
BufLen == 3
\* the bytes a native call may leave in the buffer, as c_char (i8): NUL, 'A',
\* and -1, which is 0xFF as u8 and occurs in no UTF-8 text
Bytes == {0, 65, 0 - 1}
Buffers == [1 .. BufLen -> Bytes]
\* the buffer as allocated: vec![0 as c_char; 256]
ZeroBuffer == [i \in 1 .. BufLen |-> 0]
\* String::from("Invalid UTF-8 in error message"), as its bytes
Placeholder ==
    <<73, 110, 118, 97, 108, 105, 100, 32, 85, 84, 70, 45, 56, 32, 105, 110,
      32, 101, 114, 114, 111, 114, 32, 109, 101, 115, 115, 97, 103, 101>>

\* byte as u8
as_u8(byte) == byte % 256

\* extract_string_from_vec: the bytes before the first NUL (all of them when
\* there is none), Err when they are not UTF-8.  Of the bytes tried only 0xFF
\* is not UTF-8; the String is modelled by its bytes.
extract_string_from_vec(vec_i8) ==
    LET vec_u8 == [i \in 1 .. Len(vec_i8) |-> as_u8(vec_i8[i])]
        zeros == {i \in 1 .. Len(vec_u8) : vec_u8[i] = 0}
        null_pos == IF zeros = {} THEN Len(vec_u8) + 1
                    ELSE CHOOSE i \in zeros : \A j \in zeros : i <= j
        vec_u8_trimmed == SubSeq(vec_u8, 1, null_pos - 1)
    IN  IF \A i \in 1 .. Len(vec_u8_trimmed) : vec_u8_trimmed[i] < 128
        THEN [ok |-> TRUE, s |-> vec_u8_trimmed]
        ELSE [ok |-> FALSE, s |-> <<>>]

\* a plausible slip: every call is reported as Success
call_trans2quik_function_success(code, error_message) ==
    [ok |-> TRUE, kind |-> "Success",
     message |-> LET m == extract_string_from_vec(error_message)
                 IN  IF m.ok THEN m.s ELSE Placeholder]

\* a plausible slip: a message that is not UTF-8 fails the call
call_trans2quik_function_propagate(code, error_message) ==
    LET m == extract_string_from_vec(error_message)
    IN  IF m.ok THEN [ok |-> TRUE, kind |-> Trans2QuikResult_from(code), message |-> m.s]
        ELSE [ok |-> FALSE, kind |-> "Unknown", message |-> Placeholder]

\* Terminal::call_trans2quik_function: the native function has returned `code`
\* and left `error_message` in the buffer; the wrapper returns Ok(mapped kind)
\* whatever the code and the message
call_trans2quik_function(code, error_message) ==
    [ok |-> TRUE, kind |-> Trans2QuikResult_from(code),
     message |-> LET m == extract_string_from_vec(error_message)
                 IN  IF m.ok THEN m.s ELSE Placeholder]

\* connect, disconnect, is_quik_connected, is_dll_connected: the native
\* function called through call_trans2quik_function (the CString of connect is
\* built from a literal without NUL, so its `?` never returns)
Wrappers == {"connect", "disconnect", "is_quik_connected", "is_dll_connected"}
wrapper(name, code, error_message) == call_trans2quik_function(code, error_message)

\* The wrappers called by the loops but absent from quik.rs (subscribe_orders,
\* subscribe_trades, unsubscribe_orders, unsubscribe_trades): Ok(mapped kind),
\* like every wrapper of quik.rs
missing_wrapper(code) == [ok |-> TRUE, kind |-> Trans2QuikResult_from(code)]

\* Terminal::set_connection_status_callback, set_transactions_reply_callback:
\* Ok(Trans2QuikResult::from(function_result))
set_callback(code) == [ok |-> TRUE, kind |-> Trans2QuikResult_from(code)]

\* Terminal::send_async_transaction: Ok(Trans2QuikResult::from(function_result))
send_async_transaction(code) == [ok |-> TRUE, kind |-> Trans2QuikResult_from(code)]

\* Terminal::send_sync_transaction: CString::new(..).expect(..) of a string
\* without NUL, the native call, Ok(Trans2QuikResult::from(function_result))
send_sync_transaction(code) == [ok |-> TRUE, kind |-> Trans2QuikResult_from(code)]

\* the result of the native call `name` returning `code`
native(name, code) ==
    IF name \in Wrappers THEN wrapper(name, code, ZeroBuffer)
    ELSE IF name \in {"set_connection_status_callback", "set_transactions_reply_callback"}
    THEN set_callback(code)
    ELSE IF name = "send_async_transaction" THEN send_async_transaction(code)
    ELSE IF name = "send_sync_transaction" THEN send_sync_transaction(code)
    ELSE missing_wrapper(code)

\* a plausible slip: the reply callback is never registered
StartupCalls_no_reply_callback ==
    <<"connect", "is_dll_connected", "is_quik_connected",
      "set_connection_status_callback",
      "subscribe_orders", "subscribe_trades", "start_orders", "start_trades">>

\* the calls of the startup sequence, in program order
StartupCalls == <<"connect", "is_dll_connected", "is_quik_connected",
                  "set_connection_status_callback", "set_transactions_reply_callback",
                  "subscribe_orders", "subscribe_trades", "start_orders", "start_trades">>

\* the calls of the teardown sequence, in program order
TeardownCalls == <<"unsubscribe_orders", "unsubscribe_trades", "disconnect">>

(***************************************************************************)
(* The orchestration loops: bot.rs `trade` (variant "trade") and main.rs   *)
(* `run_main_loop` with ema.rs `Ema::calc` (variant "main").  pc is the    *)
(* await point (or the next synchronous block) the loop is at.             *)
(***************************************************************************)
\* security codes of the tracked instruments of `trade`, in list order
sec_codes == <<"LKOH", "SBER">>

\* cap of time_in_state in the loops
MaxStay == 5
\* Shutdown commands the GUI may send
MaxCommands == 1
\* transactions submitted by run_main_loop that the model records
MaxTransactions == 2

\* psql.rs get_instruments: CrossoverSignal::new(2.0, 5)
trade_hysteresis_percentage == 2
trade_hysteresis_periods == 5
\* main.rs: CrossoverSignal::new(0.03, 3). Percentages of the model are whole
\* numbers, so a small whole threshold stands for 0.03 and the EMA values tried
\* lie a whole percent apart
main_hysteresis_percentage == 1
main_hysteresis_periods == 3
\* main.rs: short_period_quantity, long_period_quantity
short_period_quantity == 80
long_period_quantity == 210

\* events the native callback thread hands to the channels of `trade`
MaxEvents == 2

\* chrono::Weekday values and hours of the day (now.weekday(), now.hour()) tried
Weekdays == {"Fri", "Sat"}
Hours == {3, 4, 7}
Times == Weekdays \X Hours
\* no clock was read in the current tick
NoTime == <<"none", 0 - 1>>

\* fn is_weekday(weekday)
is_weekday(weekday) == weekday \in {"Mon", "Tue", "Wed", "Thu", "Fri"}

\* fn trading_hours(weekday) -> (start_hour, end_hour)
trading_hours(weekday) == IF is_weekday(weekday) THEN <<3, 24>> ELSE <<6, 24>>

\* fn is_trading_time(), for Utc::now() = t = <<weekday, hour>>
is_trading_time(t) ==
    LET current_hour == t[2]
        start_hour == trading_hours(t[1])[1]
        end_hour == trading_hours(t[1])[2]
    IN  current_hour > start_hour /\ current_hour < end_hour

\* a plausible slip: a Sell goes through the synchronous send
transaction_mode_mixed(sig) ==
    IF sig = "Sell" THEN "send_sync_transaction" ELSE "send_async_transaction"

\* main.rs 143, 149 (and bot.rs _process_transaction): the send the loop uses
\* for a signal
transaction_mode(sig) == "send_async_transaction"

\* the EMA values a computation may return
EmaValues == {0, BaseLong - 3, BaseLong, BaseLong + 3}
\* a local that holds no value
Unset == 0 - 1

VARIABLES
    variant,          \* "trade" or "main": the loop that runs
    pc,               \* position of the loop
    command_queue,    \* trade: Shutdown commands in the command channel
    commands_sent,    \* trade: Shutdown commands sent by the GUI so far
    shutdown_signal,  \* main: the AtomicBool
    observed,         \* the loop has observed the shutdown command
    deliveredRunning, \* the shutdown command was delivered while the loop was Running
    instruments,      \* the CrossoverSignal of each tracked instrument
    idx,              \* trade: index of the instrument under evaluation
    short_ema,        \* local of the tick
    long_ema,         \* local of the tick
    signal,           \* trade: the signal update returned, until it is broadcast
    calls,            \* names of the native calls issued so far, in order
    failed_calls,     \* the unsubscribe/disconnect calls that returned a kind other than Success
    transactions,     \* OPERATION of each transaction sent with send_async_transaction
    startup_results,  \* kinds returned by connect and the two link probes, while startup lasts
    calc_error,       \* the error the step just taken got from Ema::calc ("Db", "NoData") or from get_last_price ("Price"), None otherwise
    now,              \* trade: <<weekday, hour>> that is_trading_time read in the current tick
    callback_events,  \* trade: events sent on the three callback channels and not received
    lost_events       \* trade: callback invocations that found no sender installed

loopVars == <<variant, pc, command_queue, commands_sent, shutdown_signal, observed,
              deliveredRunning, instruments, idx, short_ema, long_ema, signal,
              calls, failed_calls, transactions, startup_results, calc_error,
              now, callback_events, lost_events>>

\* the stand-alone state machine and what is recorded of its calls
VARIABLES
    sm,        \* the CrossoverSignal
    fromNew,   \* TRUE when sm started as new(..)
    prev,      \* sm before the last update call
    in,        \* <<short_ema, long_ema>> of the last update call
    ret,       \* what the last update call returned
    cls,       \* how the last input classified: Above, Below, Between, NoOp (long = 0), Init (no call yet)
    nCalls,    \* number of update calls so far
    pure,      \* the one classification all calls so far had, "mixed" otherwise, "empty" before the first call
    runCls,    \* classification of the current run of calls (calls with long = 0 aside)
    runEmits,  \* number of signals returned in the current run of same-extreme calls
    prevEmit,  \* the signal most recently returned before the last call
    lastEmit,  \* the signal most recently returned
    viaBetween, \* TRUE when a Between input was seen since the last returned signal
    runLen     \* number of classified calls of the current run of one classification

sigVars == <<sm, fromNew, prev, in, ret, cls, nCalls, pure, runCls, runEmits,
             prevEmit, lastEmit, viaBetween, runLen>>

\* a pure function applied on its own: which one, to what, with what result
VARIABLES op, args, result

pureVars == <<op, args, result>>

\* app.rs: the GUI and what is recorded of its frames
VARIABLES
    app,         \* MyApp: show_confirmation_dialog, allowed_to_close
    viewport,    \* "open", "closed" once a close request was not cancelled, "none" when no GUI runs
    last_frame,  \* input and effects of the last call of MyApp::update
    frames,      \* number of calls of MyApp::update so far
    said_no,     \* the user has answered No at least once
    said_yes     \* the user has answered Yes at least once

guiVars == <<app, viewport, last_frame, frames, said_no, said_yes>>

\* MyApp::new: show_confirmation_dialog: false, allowed_to_close: false
MyApp_new == [show_confirmation_dialog |-> FALSE, allowed_to_close |-> FALSE]

\* no call of MyApp::update yet
NoFrame == [close_requested |-> FALSE, click |-> "none", allowed_before |-> FALSE,
            sent |-> FALSE, cancelled |-> FALSE, opened |-> FALSE, close_cmd |-> FALSE]

\* a plausible slip: a close request sends Shutdown without looking at allowed_to_close
MyApp_update_noconfirm(self, close_requested, click) ==
    LET s1 == self
        shown == s1.show_confirmation_dialog
        s2 == IF shown /\ click = "No"
              THEN [show_confirmation_dialog |-> FALSE, allowed_to_close |-> FALSE]
              ELSE IF shown /\ click = "Yes"
              THEN [show_confirmation_dialog |-> FALSE, allowed_to_close |-> TRUE]
              ELSE s1
    IN  [self |-> s2,
         sent |-> close_requested,
         cancelled |-> FALSE,
         opened |-> FALSE,
         close_cmd |-> shown /\ click = "Yes",
         clicked |-> IF shown THEN click ELSE "none"]

\* MyApp::update, lines 355-386: the close request, then the dialog.  `click`
\* is the button of the dialog the user clicked in this frame; it counts only
\* when the dialog is shown
MyApp_update(self, close_requested, click) ==
    LET send == close_requested /\ self.allowed_to_close
        cancel == close_requested /\ ~self.allowed_to_close
        s1 == IF cancel THEN [self EXCEPT !.show_confirmation_dialog = TRUE] ELSE self
        shown == s1.show_confirmation_dialog
        s2 == IF shown /\ click = "No"
              THEN [show_confirmation_dialog |-> FALSE, allowed_to_close |-> FALSE]
              ELSE IF shown /\ click = "Yes"
              THEN [show_confirmation_dialog |-> FALSE, allowed_to_close |-> TRUE]
              ELSE s1
    IN  [self |-> s2,
         sent |-> send,
         cancelled |-> cancel,
         opened |-> cancel,
         close_cmd |-> shown /\ click = "Yes",
         clicked |-> IF shown THEN click ELSE "none"]

RunningPCs == {"select", "check", "short", "long", "price", "insert", "broadcast", "sleep"}
Running == pc \in RunningPCs
Terminated == pc \in {"stopped", "aborted", "failed"}

LoopInit ==
    /\ variant \in {"trade", "main"}
    /\ pc = "new"
    /\ command_queue = 0
    /\ commands_sent = 0
    /\ shutdown_signal = FALSE
    /\ observed = FALSE
    /\ deliveredRunning = FALSE
    /\ instruments = IF variant = "trade"
                     THEN [i \in 1 .. Len(sec_codes) |->
                             new(trade_hysteresis_percentage, trade_hysteresis_periods)]
                     ELSE <<new(main_hysteresis_percentage, main_hysteresis_periods)>>
    /\ idx = 0
    /\ short_ema = Unset
    /\ long_ema = Unset
    /\ signal = None
    /\ calls = <<>>
    /\ failed_calls = {}
    /\ transactions = <<>>
    /\ startup_results = <<>>
    /\ calc_error = None
    /\ now = NoTime
    /\ callback_events = 0 /\ lost_events = 0
    \* no GUI runs
    /\ app = MyApp_new /\ viewport = "none" /\ last_frame = NoFrame /\ frames = 0
    /\ said_no = FALSE /\ said_yes = FALSE
    \* no stand-alone state machine is exercised, no function applied on its own
    /\ op = "none" /\ args = <<>> /\ result = <<>>
    /\ sm = new(1, 0) /\ fromNew = TRUE /\ prev = sm /\ in = <<0, 0>>
    /\ ret = None /\ cls = "Init" /\ nCalls = 0 /\ pure = "empty" /\ runCls = "Init"
    /\ runEmits = 0 /\ prevEmit = None /\ lastEmit = None /\ viaBetween = FALSE
    /\ runLen = 0

\* a plausible slip: one state machine shared by all the instruments
updated_shared(list, i, self) == [j \in DOMAIN list |-> self]

\* instrument.crossover_signal.update(..) through `&mut` to the one instrument
\* of the list (main.rs: the one crossover_signal)
updated(list, i, self) == [list EXCEPT ![i] = self]

\* main.rs 142, 148: the transaction string of a signal, by its fields (bot.rs
\* _transaction_str has the same TRANS_ID=1 in its template)
transaction_str(operation) ==
    [TRANS_ID |-> 1, CLASSCODE |-> "QJSIM", SECCODE |-> "LKOH",
     OPERATION |-> operation]

\* a plausible slip: `continue` evaluates the same instrument again
NextInstrument_again ==
    IF idx < Len(instruments)
    THEN /\ pc' = "short"
         /\ idx' = idx
    ELSE /\ pc' = "sleep"
         /\ idx' = 0

\* `continue` / the end of the body of `for instrument in instruments.iter_mut()`:
\* the next instrument, or the sleep that ends the tick
NextInstrument ==
    IF idx < Len(instruments)
    THEN /\ pc' = "short"
         /\ idx' = idx + 1
    ELSE /\ pc' = "sleep"
         /\ idx' = 0

\* the pc after the call `name` of the teardown sequence; `last` follows disconnect
AfterTeardownCall(name, last) ==
    IF name = "unsubscribe_orders" THEN "unsubscribe_trades"
    ELSE IF name = "unsubscribe_trades" THEN "disconnect"
    ELSE last

\* a plausible slip: the `break` of the Shutdown arm is missing
AfterShutdown_continue == "select"

\* bot.rs: `break` in the Shutdown arm, then Ok(())
AfterShutdown == "stopped"

\* a plausible slip: any kind other than Success fails the startup
StartupStep_strict(running) ==
    /\ pc = "startup"
    /\ LET name == StartupCalls[Len(calls) + 1] IN
       \E code \in NativeCodes :
          /\ calls' = Append(calls, name)
          /\ pc' = IF name \notin {"start_orders", "start_trades"}
                      /\ native(name, code).kind # "Success"
                   THEN "failed"
                   ELSE IF Len(calls) + 1 = Len(StartupCalls) THEN running
                   ELSE "startup"
          /\ startup_results' =
                IF Len(calls) + 1 = Len(StartupCalls) THEN <<>>
                ELSE IF name \in Wrappers THEN Append(startup_results, native(name, code).kind)
                ELSE startup_results
    /\ UNCHANGED <<variant, callback_events, lost_events, now,
                   command_queue, commands_sent, shutdown_signal, observed,
                   deliveredRunning, instruments, idx, short_ema, long_ema, signal,
                   failed_calls, transactions, sigVars, pureVars, guiVars>>
    /\ calc_error' = None

\* one call of the startup sequence; `?` returns the call's Err
StartupStep(running) ==
    /\ pc = "startup"
    /\ LET name == StartupCalls[Len(calls) + 1] IN
       \E code \in NativeCodes :
          /\ calls' = Append(calls, name)
          /\ pc' = IF name \notin {"start_orders", "start_trades"} /\ ~native(name, code).ok
                   THEN "failed"
                   ELSE IF Len(calls) + 1 = Len(StartupCalls) THEN running
                   ELSE "startup"
          /\ startup_results' =
                IF Len(calls) + 1 = Len(StartupCalls) THEN <<>>
                ELSE IF name \in Wrappers THEN Append(startup_results, native(name, code).kind)
                ELSE startup_results
    /\ calc_error' = None
    /\ UNCHANGED <<variant, callback_events, lost_events, now,
                   command_queue, commands_sent, shutdown_signal, observed,
                   deliveredRunning, instruments, idx, short_ema, long_ema, signal,
                   failed_calls, transactions, sigVars, pureVars, guiVars>>

\* Terminal::new(..)?: the library and its symbols load, or the loop returns Err
LoadLibrary ==
    /\ pc = "new"
    /\ \E loaded \in BOOLEAN : pc' = IF loaded THEN "startup" ELSE "failed"
    /\ calc_error' = None
    /\ UNCHANGED <<variant, callback_events, lost_events, now, startup_results,
                   command_queue, commands_sent, shutdown_signal, observed,
                   deliveredRunning, instruments, idx, short_ema, long_ema, signal,
                   calls, failed_calls, transactions, sigVars, pureVars, guiVars>>

(***************************************************************************)
(* bot.rs: trade                                                           *)
(***************************************************************************)
TradeNew == variant = "trade" /\ LoadLibrary

\* connect .. start_trades under the terminal lock, then the three channels
TradeStartup == variant = "trade" /\ StartupStep("select")

\* a plausible slip: the instruments are evaluated whatever the clock says
TradeTick_always ==
    /\ variant = "trade" /\ pc = "select"
    /\ \E t \in Times :
          /\ now' = t
          /\ IF Len(instruments) > 0
             THEN pc' = "short" /\ idx' = 1
             ELSE pc' = "sleep" /\ idx' = 0
    /\ calc_error' = None
    /\ UNCHANGED <<variant, callback_events, lost_events, startup_results,
                   command_queue, commands_sent, shutdown_signal, observed,
                   deliveredRunning, instruments, short_ema, long_ema, signal,
                   calls, failed_calls, transactions, sigVars, pureVars, guiVars>>

\* the tick arm of select! starts: is_trading_time(), instruments.write()
TradeTick ==
    /\ variant = "trade" /\ pc = "select"
    /\ \E t \in Times :
          /\ now' = t
          /\ IF is_trading_time(t) /\ Len(instruments) > 0
             THEN pc' = "short" /\ idx' = 1
             ELSE pc' = "sleep" /\ idx' = 0
    /\ calc_error' = None
    /\ UNCHANGED <<variant, callback_events, lost_events, startup_results,
                   command_queue, commands_sent, shutdown_signal, observed,
                   deliveredRunning, instruments, short_ema, long_ema, signal,
                   calls, failed_calls, transactions, sigVars, pureVars, guiVars>>

\* The errors of the ema::Ema::calc(&database, &sec_code, timeframe, n) that
\* `trade` calls, which ema.rs does not contain: the data source failed, or it
\* returned too few candles.  It is handed no terminal, so it issues no native call.
calc_errors == {"Db", "NoData"}

\* ema::Ema::calc(.., short_num_of_candles).await: Ok(short_ema), or Err and continue
TradeCalcShort ==
    /\ variant = "trade" /\ pc = "short"
    /\ \/ \E v \in EmaValues :
             short_ema' = v /\ pc' = "long" /\ idx' = idx /\ calc_error' = None
       \/ \E e \in calc_errors :
             short_ema' = Unset /\ NextInstrument /\ calc_error' = e
    /\ UNCHANGED <<variant, callback_events, lost_events, now, startup_results,
                   command_queue, commands_sent, shutdown_signal, observed,
                   deliveredRunning, instruments, long_ema, signal,
                   calls, failed_calls, transactions, sigVars, pureVars, guiVars>>

\* ema::Ema::calc(.., long_num_of_candles).await: Ok(long_ema), or Err and continue
TradeCalcLong ==
    /\ variant = "trade" /\ pc = "long"
    /\ \/ \E v \in EmaValues :
             /\ long_ema' = v /\ short_ema' = short_ema
             /\ pc' = "price" /\ idx' = idx /\ calc_error' = None
       \/ \E e \in calc_errors :
             long_ema' = Unset /\ short_ema' = Unset /\ NextInstrument /\ calc_error' = e
    /\ UNCHANGED <<variant, callback_events, lost_events, now, startup_results,
                   command_queue, commands_sent, shutdown_signal, observed,
                   deliveredRunning, instruments, signal,
                   calls, failed_calls, transactions, sigVars, pureVars, guiVars>>

\* database.get_last_price(..).await: Err and continue, or Ok and then
\* instrument.crossover_signal.update(short_ema, long_ema)
TradeLastPrice ==
    /\ variant = "trade" /\ pc = "price"
    /\ short_ema' = Unset /\ long_ema' = Unset
    /\ \/ /\ NextInstrument
          /\ calc_error' = "Price"
          /\ UNCHANGED <<instruments, signal>>
       \/ LET r == update(instruments[idx], short_ema, long_ema) IN
          /\ r.self.time_in_state <= MaxStay
          /\ instruments' = updated(instruments, idx, r.self)
          /\ calc_error' = None
          /\ IF r.ret = None
             THEN NextInstrument /\ signal' = None
             ELSE pc' = "insert" /\ idx' = idx /\ signal' = r.ret
    /\ UNCHANGED <<variant, callback_events, lost_events, now, startup_results,
                   command_queue, commands_sent, shutdown_signal, observed,
                   deliveredRunning, calls, failed_calls, transactions, sigVars, pureVars, guiVars>>

\* database.insert_ema(.., SignalBuy | SignalSell, ..).await; an Err is logged
TradeInsertEma ==
    /\ variant = "trade" /\ pc = "insert"
    /\ pc' = "broadcast"
    /\ calc_error' = None
    /\ UNCHANGED <<variant, callback_events, lost_events, now, startup_results,
                   command_queue, commands_sent, shutdown_signal, observed,
                   deliveredRunning, instruments, idx, short_ema, long_ema, signal,
                   calls, failed_calls, transactions, sigVars, pureVars, guiVars>>

\* tg_bot.broadcast(&message).await
TradeBroadcast ==
    /\ variant = "trade" /\ pc = "broadcast"
    /\ signal' = None
    /\ NextInstrument
    /\ calc_error' = None
    /\ UNCHANGED <<variant, callback_events, lost_events, now, startup_results,
                   command_queue, commands_sent, shutdown_signal, observed,
                   deliveredRunning, instruments, short_ema, long_ema,
                   calls, failed_calls, transactions, sigVars, pureVars, guiVars>>

\* sleep(Duration::from_secs(60)).await; Ok(()); the loop goes round
TradeSleep ==
    /\ variant = "trade" /\ pc = "sleep"
    /\ pc' = "select"
    /\ now' = NoTime
    /\ calc_error' = None
    /\ UNCHANGED <<variant, callback_events, lost_events, startup_results,
                   command_queue, commands_sent, shutdown_signal, observed,
                   deliveredRunning, instruments, idx, short_ema, long_ema, signal,
                   calls, failed_calls, transactions, sigVars, pureVars, guiVars>>

\* select! completes command_receiver.recv() with Some(Shutdown): the tick
\* future is dropped where it awaits, the terminal lock is taken
TradeShutdown ==
    /\ variant = "trade" /\ Running
    /\ command_queue > 0
    /\ command_queue' = command_queue - 1
    /\ observed' = TRUE
    /\ pc' = TeardownCalls[1]
    /\ idx' = 0 /\ short_ema' = Unset /\ long_ema' = Unset /\ signal' = None
    /\ now' = NoTime
    /\ calc_error' = None
    /\ UNCHANGED <<variant, callback_events, lost_events, startup_results,
                   commands_sent, shutdown_signal, deliveredRunning, instruments,
                   calls, failed_calls, transactions, sigVars, pureVars, guiVars>>

\* a plausible slip: a failed step ends the teardown
TradeTeardown_stop_on_failure ==
    /\ variant = "trade" /\ pc \in {TeardownCalls[i] : i \in 1 .. Len(TeardownCalls)}
    /\ \E code \in NativeCodes :
          LET r == native(pc, code) IN
          /\ calls' = Append(calls, pc)
          /\ failed_calls' = IF r.kind # "Success" THEN failed_calls \cup {pc} ELSE failed_calls
          /\ pc' = IF r.kind # "Success" THEN AfterShutdown
                   ELSE AfterTeardownCall(pc, AfterShutdown)
    /\ calc_error' = None
    /\ UNCHANGED <<variant, callback_events, lost_events, now, startup_results,
                   command_queue, commands_sent, shutdown_signal, observed,
                   deliveredRunning, instruments, idx, short_ema, long_ema, signal,
                   transactions, sigVars, pureVars, guiVars>>

\* the Shutdown arm: unsubscribe_orders, unsubscribe_trades, disconnect, each
\* `if let Err(err) = .. { error!(..) }`, then break
TradeTeardown ==
    /\ variant = "trade" /\ pc \in {TeardownCalls[i] : i \in 1 .. Len(TeardownCalls)}
    /\ \E code \in NativeCodes :
          LET r == native(pc, code) IN
          /\ calls' = Append(calls, pc)
          /\ failed_calls' = IF r.kind # "Success" THEN failed_calls \cup {pc} ELSE failed_calls
          /\ pc' = AfterTeardownCall(pc, AfterShutdown)
    /\ calc_error' = None
    /\ UNCHANGED <<variant, callback_events, lost_events, now, startup_results,
                   command_queue, commands_sent, shutdown_signal, observed,
                   deliveredRunning, instruments, idx, short_ema, long_ema, signal,
                   transactions, sigVars, pureVars, guiVars>>

\* app.rs: the GUI sends AppCommand::Shutdown on the unbounded command channel
SendShutdown ==
    /\ variant = "trade"
    /\ commands_sent < MaxCommands
    /\ commands_sent' = commands_sent + 1
    /\ command_queue' = command_queue + 1
    /\ deliveredRunning' = (deliveredRunning \/ Running)
    /\ UNCHANGED <<variant, callback_events, lost_events, now, startup_results, calc_error,
                   pc, shutdown_signal, observed, instruments, idx, short_ema,
                   long_ema, signal, calls, failed_calls, transactions, sigVars, pureVars, guiVars>>

(***************************************************************************)
(* main.rs: run_main_loop, with ema.rs: Ema::calc                          *)
(***************************************************************************)
\* the calls of the list TeardownCalls that return a kind other than Success
\* when the native functions return `codes`
FailedOf(codes) ==
    {TeardownCalls[i] : i \in {j \in 1 .. Len(TeardownCalls) :
                                  native(TeardownCalls[j], codes[j]).kind # "Success"}}

\* a plausible slip: after its unsubscribe/disconnect calls the computation
\* returns a value, and the loop goes on
calc_continue(db_ok, data_len, period_quantity, value, codes) ==
    IF ~db_ok
    THEN [ok |-> FALSE, error |-> "Db", value |-> Unset, issued |-> <<>>, failed |-> {}]
    ELSE IF data_len # period_quantity
    THEN [ok |-> TRUE, error |-> None, value |-> value, issued |-> TeardownCalls,
          failed |-> FailedOf(codes)]
    ELSE [ok |-> TRUE, error |-> None, value |-> value, issued |-> <<>>, failed |-> {}]

\* a plausible slip: only a short window is rejected
calc_atleast(db_ok, data_len, period_quantity, value, codes) ==
    IF ~db_ok
    THEN [ok |-> FALSE, error |-> "Db", value |-> Unset, issued |-> <<>>, failed |-> {}]
    ELSE IF data_len < period_quantity
    THEN [ok |-> FALSE, error |-> "NoData", value |-> Unset, issued |-> TeardownCalls,
          failed |-> FailedOf(codes)]
    ELSE [ok |-> TRUE, error |-> None, value |-> value, issued |-> <<>>, failed |-> {}]

\* Ema::calc: get_data_for_ema(..).await?; on a candle count other than
\* period_quantity the three terminal calls (results dropped) and Err(NoData);
\* otherwise the EMA of the candles.  `value` is the EMA of the candles read,
\* `codes` what the three terminal calls would return.
calc(db_ok, data_len, period_quantity, value, codes) ==
    IF ~db_ok
    THEN [ok |-> FALSE, error |-> "Db", value |-> Unset, issued |-> <<>>, failed |-> {}]
    ELSE IF data_len # period_quantity
    THEN [ok |-> FALSE, error |-> "NoData", value |-> Unset, issued |-> TeardownCalls,
          failed |-> FailedOf(codes)]
    ELSE [ok |-> TRUE, error |-> None, value |-> value, issued |-> <<>>, failed |-> {}]

\* the k greatest elements of S, greatest first
RECURSIVE TakeDesc(_, _)
TakeDesc(S, k) ==
    IF S = {} \/ k = 0 THEN <<>>
    ELSE LET m == CHOOSE x \in S : \A y \in S : y <= x
         IN  <<m>> \o TakeDesc(S \ {m}, k - 1)

\* Db::get_candles: of the candles whose candle_start is in candle_times, the
\* rows in the order of ORDER BY candle_start DESC, LIMIT num_candles, pushed
\* to the Vec in row order.  A candle is modelled by its candle_start.
get_candles(candle_times, number_of_candles) == TakeDesc(candle_times, number_of_candles)

\* Ema::calc, `for data in data_for_ema { .. ema.next(&item) .. }`: the items
\* in the order they are handed to the accumulator
fed(data_for_ema) == [i \in 1 .. Len(data_for_ema) |-> data_for_ema[i]]

\* what get_data_for_ema may hand to Ema::calc for a window of q candles:
\* a database error, a short window, or the window with its EMA
CalcOutcomes(q) ==
    {calc(FALSE, q, q, Unset, <<0, 0, 0>>)}
    \cup {calc(TRUE, n, q, Unset, codes) : n \in {q - 1, q + 1}, codes \in [1 .. 3 -> {0, 1}]}
    \cup {calc(TRUE, q, q, v, <<0, 0, 0>>) : v \in EmaValues}

MainNew == variant = "main" /\ LoadLibrary

\* connect .. start_trades
MainStartup == variant = "main" /\ StartupStep("db")

\* psql::Db::new(..).await?; database.init().await?; CrossoverSignal::new(..)
MainDb ==
    /\ variant = "main" /\ pc = "db"
    /\ \E ok \in BOOLEAN : pc' = IF ok THEN "check" ELSE "failed"
    /\ calc_error' = None
    /\ UNCHANGED <<variant, callback_events, lost_events, now, startup_results,
                   command_queue, commands_sent, shutdown_signal, observed,
                   deliveredRunning, instruments, idx, short_ema, long_ema, signal,
                   calls, failed_calls, transactions, sigVars, pureVars, guiVars>>

\* the top of the loop: if shutdown_signal.load(..) { break; }
MainCheck ==
    /\ variant = "main" /\ pc = "check"
    /\ IF shutdown_signal
       THEN observed' = TRUE /\ pc' = TeardownCalls[1]
       ELSE observed' = observed /\ pc' = "short"
    /\ calc_error' = None
    /\ UNCHANGED <<variant, callback_events, lost_events, now, startup_results,
                   command_queue, commands_sent, shutdown_signal,
                   deliveredRunning, instruments, idx, short_ema, long_ema, signal,
                   calls, failed_calls, transactions, sigVars, pureVars, guiVars>>

\* let short_ema = ema::Ema::calc(.., short_period_quantity).await?;
MainCalcShort ==
    /\ variant = "main" /\ pc = "short"
    /\ \E r \in CalcOutcomes(short_period_quantity) :
          /\ calls' = calls \o r.issued
          /\ failed_calls' = failed_calls \cup r.failed
          /\ short_ema' = r.value
          /\ calc_error' = r.error
          /\ pc' = IF r.ok THEN "long" ELSE "aborted"
    /\ UNCHANGED <<variant, callback_events, lost_events, now, startup_results,
                   command_queue, commands_sent, shutdown_signal, observed,
                   deliveredRunning, instruments, idx, long_ema, signal, transactions,
                   sigVars, pureVars, guiVars>>

\* let long_ema = ema::Ema::calc(.., long_period_quantity).await?; then
\* crossover_signal.update(short_ema, long_ema) and, on Some(signal),
\* terminal.send_async_transaction(..)?
MainCalcLong ==
    /\ variant = "main" /\ pc = "long"
    /\ \E r \in CalcOutcomes(long_period_quantity), code \in NativeCodes :
          /\ short_ema' = Unset /\ long_ema' = Unset
          /\ calc_error' = r.error
          /\ IF ~r.ok
             THEN /\ calls' = calls \o r.issued
                  /\ failed_calls' = failed_calls \cup r.failed
                  /\ pc' = "aborted"
                  /\ UNCHANGED <<instruments, transactions>>
             ELSE LET u == update(instruments[1], short_ema, r.value)
                      send == transaction_mode(u.ret)
                      sent == native(send, code) IN
                  /\ u.self.time_in_state <= MaxStay
                  /\ instruments' = updated(instruments, 1, u.self)
                  /\ failed_calls' = failed_calls
                  /\ IF u.ret = None
                     THEN /\ pc' = "sleep"
                          /\ UNCHANGED <<calls, transactions>>
                     ELSE /\ Len(transactions) < MaxTransactions
                          /\ calls' = Append(calls, send)
                          /\ transactions' = Append(transactions,
                                                    IF u.ret = "Buy" THEN "B" ELSE "S")
                          /\ pc' = IF sent.ok THEN "sleep" ELSE "aborted"
    /\ UNCHANGED <<variant, callback_events, lost_events, now, startup_results,
                   command_queue, commands_sent, shutdown_signal, observed,
                   deliveredRunning, idx, signal, sigVars, pureVars, guiVars>>

\* tokio::time::sleep(Duration::from_secs(1)).await; the loop goes round
MainSleep ==
    /\ variant = "main" /\ pc = "sleep"
    /\ pc' = "check"
    /\ calc_error' = None
    /\ UNCHANGED <<variant, callback_events, lost_events, now, startup_results,
                   command_queue, commands_sent, shutdown_signal, observed,
                   deliveredRunning, instruments, idx, short_ema, long_ema, signal,
                   calls, failed_calls, transactions, sigVars, pureVars, guiVars>>

\* after the loop: terminal.unsubscribe_orders()?; terminal.unsubscribe_trades()?;
\* terminal.disconnect()?; Ok(())
MainTeardown ==
    /\ variant = "main" /\ pc \in {TeardownCalls[i] : i \in 1 .. Len(TeardownCalls)}
    /\ \E code \in NativeCodes :
          LET r == native(pc, code) IN
          /\ calls' = Append(calls, pc)
          /\ failed_calls' = IF r.kind # "Success" THEN failed_calls \cup {pc} ELSE failed_calls
          /\ pc' = IF r.ok THEN AfterTeardownCall(pc, "stopped") ELSE "aborted"
    /\ calc_error' = None
    /\ UNCHANGED <<variant, callback_events, lost_events, now, startup_results,
                   command_queue, commands_sent, shutdown_signal, observed,
                   deliveredRunning, instruments, idx, short_ema, long_ema, signal,
                   transactions, sigVars, pureVars, guiVars>>

\* main: shutdown_signal.store(true, ..) once the GUI has exited
StoreShutdown ==
    /\ variant = "main"
    /\ commands_sent < MaxCommands
    /\ commands_sent' = commands_sent + 1
    /\ shutdown_signal' = TRUE
    /\ deliveredRunning' = (deliveredRunning \/ Running)
    /\ UNCHANGED <<variant, callback_events, lost_events, now, startup_results, calc_error,
                   pc, command_queue, observed, instruments, idx, short_ema,
                   long_ema, signal, calls, failed_calls, transactions, sigVars, pureVars, guiVars>>

\* The native callback thread hands a reply, order or trade event to the loop:
\* it sends on the channel whose sender `trade` stored in
\* TRANSACTION_REPLY_SENDER / ORDER_STATUS_SENDER / TRADE_STATUS_SENDER (bot.rs
\* 117-151).  The statics and the sending callbacks are not in quik.rs; the
\* select! of `trade` has no arm that receives from the three channels.
CallbackEvent ==
    /\ variant = "trade" /\ Running
    /\ callback_events + lost_events < MaxEvents
    /\ callback_events' = callback_events + 1
    /\ UNCHANGED <<variant, lost_events, now, startup_results, calc_error,
                   pc, command_queue, commands_sent, shutdown_signal, observed,
                   deliveredRunning, instruments, idx, short_ema,
                   long_ema, signal, calls, failed_calls, transactions, sigVars, pureVars, guiVars>>

\* the native thread invokes the order-status callback while `trade` is still
\* in its startup block: start_orders (bot.rs 108) has been called, the senders
\* are stored only after the block (bot.rs 123-151), so the callback finds no
\* sender and the event is dropped
CallbackBeforeSender ==
    /\ variant = "trade" /\ pc = "startup"
    /\ \E i \in 1 .. Len(calls) : calls[i] = "start_orders"
    /\ callback_events + lost_events < MaxEvents
    /\ lost_events' = lost_events + 1
    /\ UNCHANGED <<variant, callback_events, now, startup_results, calc_error,
                   pc, command_queue, commands_sent, shutdown_signal, observed,
                   deliveredRunning, instruments, idx, short_ema,
                   long_ema, signal, calls, failed_calls, transactions, sigVars, pureVars, guiVars>>

\* the steps of the loop itself
LoopStep ==
    \/ TradeNew \/ TradeStartup \/ TradeTick \/ TradeCalcShort \/ TradeCalcLong
    \/ TradeLastPrice \/ TradeInsertEma \/ TradeBroadcast \/ TradeSleep \/ TradeTeardown
    \/ MainNew \/ MainStartup \/ MainDb \/ MainCheck \/ MainCalcShort \/ MainCalcLong
    \/ MainSleep \/ MainTeardown

(***************************************************************************)
(* The state machine on its own: a CrossoverSignal, either fresh from new  *)
(* or in an arbitrary state, driven by update calls with arbitrary inputs. *)
(* The remaining variables record the history of the calls.                *)
(***************************************************************************)
Extremes == {"Above", "Below"}

SigInit ==
    /\ fromNew \in BOOLEAN
    /\ sm \in IF fromNew
              THEN {new(h, n) : h \in 1 .. MaxHPct, n \in 0 .. MaxPeriods}
              ELSE CrossoverSignal
    /\ prev = sm
    /\ in = <<0, 0>>
    /\ ret = None
    /\ cls = "Init"
    /\ nCalls = 0
    /\ pure = "empty"
    /\ runCls = "Init"
    /\ runEmits = 0
    /\ prevEmit = None
    /\ lastEmit = None
    /\ viaBetween = FALSE
    /\ runLen = 0
    \* no loop runs
    /\ variant = "none" /\ pc = "idle" /\ command_queue = 0 /\ commands_sent = 0
    /\ shutdown_signal = FALSE /\ observed = FALSE /\ deliveredRunning = FALSE
    /\ instruments = <<>> /\ idx = 0 /\ short_ema = Unset /\ long_ema = Unset
    /\ signal = None /\ calls = <<>> /\ failed_calls = {} /\ transactions = <<>>
    /\ startup_results = <<>> /\ calc_error = None
    /\ now = NoTime /\ callback_events = 0 /\ lost_events = 0
    \* no GUI runs
    /\ app = MyApp_new /\ viewport = "none" /\ last_frame = NoFrame /\ frames = 0
    /\ said_no = FALSE /\ said_yes = FALSE
    \* no function applied on its own
    /\ op = "none" /\ args = <<>> /\ result = <<>>

\* one call instrument.crossover_signal.update(short_ema, long_ema)
SigUpdate(short, long) ==
    LET r == update(sm, short, long)
        c == IF long = 0 THEN "NoOp" ELSE r.self.state
        e == IF r.ret # None THEN 1 ELSE 0
    IN
    /\ nCalls < MaxCalls
    /\ sm.time_in_state < MaxTime
    /\ sm' = r.self
    /\ prev' = sm
    /\ in' = <<short, long>>
    /\ ret' = r.ret
    /\ cls' = c
    /\ nCalls' = nCalls + 1
    /\ pure' = IF pure \in {"empty", c} THEN c ELSE "mixed"
    /\ runCls' = IF c = "NoOp" THEN runCls ELSE c
    /\ runEmits' = IF c = "NoOp" THEN runEmits
                   ELSE IF c \in Extremes /\ c = runCls THEN runEmits + e
                   ELSE IF c \in Extremes THEN e
                   ELSE 0
    /\ prevEmit' = lastEmit
    /\ lastEmit' = IF r.ret # None THEN r.ret ELSE lastEmit
    /\ viaBetween' = IF r.ret # None THEN FALSE
                     ELSE IF c = "Between" THEN TRUE
                     ELSE viaBetween
    /\ runLen' = IF c = "NoOp" THEN runLen
                 ELSE IF c = runCls THEN runLen + 1
                 ELSE 1
    /\ UNCHANGED <<fromNew, loopVars, pureVars, guiVars>>

SigNext == \E i \in Inputs : SigUpdate(i[1], i[2])

vars == <<loopVars, sigVars, pureVars, guiVars>>

SigSpec == SigInit /\ [][SigNext]_vars

(***************************************************************************)
(* The two loops, with the shutdown command arriving from outside          *)
(***************************************************************************)
LoopNext ==
    \/ LoopStep
    \/ TradeShutdown
    \/ SendShutdown
    \/ StoreShutdown

LoopSpec == LoopInit /\ [][LoopNext]_vars

(***************************************************************************)
(* The functions of quik.rs, ema.rs and psql.rs applied on their own       *)
(***************************************************************************)
\* window sizes tried (the loops use 80 and 210)
MaxWindow == 8
\* candle starts tried
MaxBuckets == 4
\* native return codes tried, negative ones and ones past 14 among them
CodeInputs == (0 - 3) .. 17

PureInit ==
    /\ op = "none" /\ args = <<>> /\ result = <<>>
    \* no loop runs
    /\ variant = "none" /\ pc = "idle" /\ command_queue = 0 /\ commands_sent = 0
    /\ shutdown_signal = FALSE /\ observed = FALSE /\ deliveredRunning = FALSE
    /\ instruments = <<>> /\ idx = 0 /\ short_ema = Unset /\ long_ema = Unset
    /\ signal = None /\ calls = <<>> /\ failed_calls = {} /\ transactions = <<>>
    /\ startup_results = <<>> /\ calc_error = None
    /\ now = NoTime /\ callback_events = 0 /\ lost_events = 0
    \* no GUI runs
    /\ app = MyApp_new /\ viewport = "none" /\ last_frame = NoFrame /\ frames = 0
    /\ said_no = FALSE /\ said_yes = FALSE
    \* no stand-alone state machine is exercised
    /\ sm = new(1, 0) /\ fromNew = TRUE /\ prev = sm /\ in = <<0, 0>>
    /\ ret = None /\ cls = "Init" /\ nCalls = 0 /\ pure = "empty" /\ runCls = "Init"
    /\ runEmits = 0 /\ prevEmit = None /\ lastEmit = None /\ viaBetween = FALSE
    /\ runLen = 0

\* Trans2QuikResult::from(code)
ApplyFrom ==
    /\ op = "none"
    /\ \E code \in CodeInputs :
          /\ op' = "from"
          /\ args' = [code |-> code]
          /\ result' = [kind |-> Trans2QuikResult_from(code)]
    /\ UNCHANGED <<loopVars, sigVars, guiVars>>

\* terminal.connect(), .disconnect(), .is_quik_connected(), .is_dll_connected()
\* with the native function returning `code` and leaving `buffer`
ApplyWrapper ==
    /\ op = "none"
    /\ \E name \in Wrappers, code \in CodeInputs, buffer \in Buffers :
          /\ op' = name
          /\ args' = [code |-> code, buffer |-> buffer]
          /\ result' = wrapper(name, code, buffer)
    /\ UNCHANGED <<loopVars, sigVars, guiVars>>

\* Ema::calc(.., period_quantity) with the data source returning data_len candles
ApplyCalc ==
    /\ op = "none"
    /\ \E db_ok \in BOOLEAN, period_quantity \in 1 .. MaxWindow,
          data_len \in 0 .. MaxWindow + 1, value \in EmaValues, codes \in [1 .. 3 -> {0, 1}] :
          /\ op' = "calc"
          /\ args' = [db_ok |-> db_ok, data_len |-> data_len,
                      period_quantity |-> period_quantity, value |-> value]
          /\ result' = calc(db_ok, data_len, period_quantity, value, codes)
    /\ UNCHANGED <<loopVars, sigVars, guiVars>>

\* database.get_candles(.., number_of_candles) and the loop of Ema::calc over
\* what it returned
ApplyGetCandles ==
    /\ op = "none"
    /\ \E candle_times \in SUBSET (1 .. MaxBuckets), number_of_candles \in 1 .. MaxBuckets :
          /\ op' = "get_candles"
          /\ args' = [candle_times |-> candle_times,
                      number_of_candles |-> number_of_candles]
          /\ result' = [data |-> get_candles(candle_times, number_of_candles),
                        fed |-> fed(get_candles(candle_times, number_of_candles))]
    /\ UNCHANGED <<loopVars, sigVars, guiVars>>

\* the values of chrono::Weekday and of now.hour()
AllWeekdays == {"Mon", "Tue", "Wed", "Thu", "Fri", "Sat", "Sun"}
AllHours == 0 .. 23

\* trading_hours(weekday) and is_trading_time() with Utc::now() at that weekday and hour
ApplyTradingTime ==
    /\ op = "none"
    /\ \E weekday \in AllWeekdays, hour \in AllHours :
          /\ op' = "is_trading_time"
          /\ args' = [weekday |-> weekday, hour |-> hour]
          /\ result' = [hours |-> trading_hours(weekday),
                        trading |-> is_trading_time(<<weekday, hour>>)]
    /\ UNCHANGED <<loopVars, sigVars, guiVars>>

\* connector.rs: the wrappers that return bool
ConnectorWrappers == {"disconnect", "is_quik_connected", "is_dll_connected",
                      "set_connection_status_callback"}

\* connector.rs: the code each wrapper logs as its success outcome
\* (match result { 0 => TRANS2QUIK_SUCCESS, 8 => .._QUIK_CONNECTED, 10 => .._DLL_CONNECTED })
connector_success(name) ==
    IF name = "is_quik_connected" THEN 8
    ELSE IF name = "is_dll_connected" THEN 10
    ELSE 0

\* connector.rs: `if result == .. { return true } else { return false }` at the
\* end of each wrapper
connector_returns(name, code) ==
    IF name = "disconnect" THEN code = 0
    ELSE IF name = "is_quik_connected" THEN code = 8
    ELSE IF name = "is_dll_connected" THEN code = 10
    ELSE code = 10

\* connector::disconnect(&lib), is_quik_connected, is_dll_connected,
\* set_connection_status_callback with the native function returning `code`
ApplyConnector ==
    /\ op = "none"
    /\ \E name \in ConnectorWrappers, code \in CodeInputs :
          /\ op' = "connector"
          /\ args' = [name |-> name, code |-> code]
          /\ result' = [ret |-> connector_returns(name, code)]
    /\ UNCHANGED <<loopVars, sigVars, guiVars>>

PureNext ==
    \/ ApplyFrom \/ ApplyWrapper \/ ApplyCalc \/ ApplyGetCandles
    \/ ApplyTradingTime \/ ApplyConnector

PureSpec == PureInit /\ [][PureNext]_vars

\* select! polls command_receiver.recv() whenever the tick future is pending,
\* and no tick completes without its sleep pending; every call of the loop returns
LoopFair == LoopSpec /\ WF_vars(LoopStep) /\ WF_vars(TradeShutdown)

(***************************************************************************)
(* app.rs: MyApp, the window that sends the Shutdown command               *)
(***************************************************************************)
\* calls of MyApp::update the model follows
MaxFrames == 10

Clicks == {"none", "No", "Yes"}

GuiInit ==
    /\ app = MyApp_new
    /\ viewport = "open"
    /\ last_frame = NoFrame
    /\ frames = 0
    /\ said_no = FALSE
    /\ said_yes = FALSE
    \* no loop runs: only the command channel is there
    /\ variant = "none" /\ pc = "idle" /\ command_queue = 0 /\ commands_sent = 0
    /\ shutdown_signal = FALSE /\ observed = FALSE /\ deliveredRunning = FALSE
    /\ instruments = <<>> /\ idx = 0 /\ short_ema = Unset /\ long_ema = Unset
    /\ signal = None /\ calls = <<>> /\ failed_calls = {} /\ transactions = <<>>
    /\ startup_results = <<>> /\ calc_error = None
    /\ now = NoTime /\ callback_events = 0 /\ lost_events = 0
    \* no function applied on its own, no stand-alone state machine
    /\ op = "none" /\ args = <<>> /\ result = <<>>
    /\ sm = new(1, 0) /\ fromNew = TRUE /\ prev = sm /\ in = <<0, 0>>
    /\ ret = None /\ cls = "Init" /\ nCalls = 0 /\ pure = "empty" /\ runCls = "Init"
    /\ runEmits = 0 /\ prevEmit = None /\ lastEmit = None /\ viaBetween = FALSE
    /\ runLen = 0

\* one call of MyApp::update by eframe: the viewport has a close request or
\* not (it has one in the frame after ViewportCommand::Close was sent), the
\* user clicked a button of the dialog or not.  A close request that is not
\* cancelled closes the window; command_sender.send puts Shutdown on the
\* unbounded channel.
GuiFrame ==
    /\ viewport = "open"
    /\ frames < MaxFrames
    /\ \E close_requested \in (IF last_frame.close_cmd THEN {TRUE} ELSE BOOLEAN),
          click \in Clicks :
          LET r == MyApp_update(app, close_requested, click) IN
          /\ app' = r.self
          /\ last_frame' = [close_requested |-> close_requested, click |-> r.clicked,
                            allowed_before |-> app.allowed_to_close,
                            sent |-> r.sent, cancelled |-> r.cancelled,
                            opened |-> r.opened, close_cmd |-> r.close_cmd]
          /\ viewport' = IF close_requested /\ ~r.cancelled THEN "closed" ELSE "open"
          /\ commands_sent' = IF r.sent THEN commands_sent + 1 ELSE commands_sent
          /\ command_queue' = IF r.sent THEN command_queue + 1 ELSE command_queue
          /\ said_no' = (said_no \/ r.clicked = "No")
          /\ said_yes' = (said_yes \/ r.clicked = "Yes")
    /\ frames' = frames + 1
    /\ UNCHANGED <<variant, pc, shutdown_signal, observed, deliveredRunning, instruments,
                   idx, short_ema, long_ema, signal, calls, failed_calls, transactions,
                   startup_results, calc_error, now, callback_events, lost_events,
                   sigVars, pureVars>>

GuiNext == GuiFrame

GuiSpec == GuiInit /\ [][GuiNext]_vars

\* the loops together with the native callback thread
\* both loops as in LoopInit, `trade` with the first instrument of the list only
EventInit ==
    /\ variant \in {"trade", "main"}
    /\ pc = "new"
    /\ command_queue = 0
    /\ commands_sent = 0
    /\ shutdown_signal = FALSE
    /\ observed = FALSE
    /\ deliveredRunning = FALSE
    /\ instruments = IF variant = "trade"
                     THEN <<new(trade_hysteresis_percentage, trade_hysteresis_periods)>>
                     ELSE <<new(main_hysteresis_percentage, main_hysteresis_periods)>>
    /\ idx = 0
    /\ short_ema = Unset
    /\ long_ema = Unset
    /\ signal = None
    /\ calls = <<>>
    /\ failed_calls = {}
    /\ transactions = <<>>
    /\ startup_results = <<>>
    /\ calc_error = None
    /\ now = NoTime
    /\ callback_events = 0 /\ lost_events = 0
    \* no GUI runs
    /\ app = MyApp_new /\ viewport = "none" /\ last_frame = NoFrame /\ frames = 0
    /\ said_no = FALSE /\ said_yes = FALSE
    \* no stand-alone state machine is exercised, no function applied on its own
    /\ op = "none" /\ args = <<>> /\ result = <<>>
    /\ sm = new(1, 0) /\ fromNew = TRUE /\ prev = sm /\ in = <<0, 0>>
    /\ ret = None /\ cls = "Init" /\ nCalls = 0 /\ pure = "empty" /\ runCls = "Init"
    /\ runEmits = 0 /\ prevEmit = None /\ lastEmit = None /\ viaBetween = FALSE
    /\ runLen = 0

EventNext == LoopNext \/ CallbackEvent \/ CallbackBeforeSender
EventSpec == EventInit /\ [][EventNext]_vars
EventFair == EventSpec /\ WF_vars(LoopStep) /\ WF_vars(TradeShutdown)

(***************************************************************************)
(* Properties of the signal state machine, checked under SigSpec.          *)
(***************************************************************************)
\* the last call was an update with long_ema # 0
Classified == nCalls > 0 /\ in[2] # 0
\* the percentage of the last input and the threshold it was compared with
LastPct == ema_percentage(in[1], in[2])
LastH == prev.hysteresis_percentage

\* C1: from any starting (state, counter, last_emitted), in a maximal run of
\* consecutive update calls whose inputs all classify as the same extreme
\* (calls with long = 0, which change nothing, do not end the run), update
\* returns Some(signal) at most once.
C1_AtMostOnePerRun == runEmits <= 1

\* a run that emitted late in a stay (the machine started beyond the
\* threshold) and then went on without a second signal
C1_Witness ==
    /\ ~fromNew
    /\ runCls = "Above" /\ cls = "Above"
    /\ runEmits = 1 /\ ret = None
    /\ sm.time_in_state > sm.hysteresis_periods + 1

\* C2: from a fresh machine with h_periods = n >= 1, consecutive updates all
\* classified Above (all Below) return None on the first n-1 calls, Some(Buy)
\* (Some(Sell)) on the n-th call and None on every further one.
C2_FreshRun ==
    (fromNew /\ pure \in Extremes /\ sm.hysteresis_periods >= 1) =>
        ret = IF nCalls = sm.hysteresis_periods
              THEN (IF pure = "Above" THEN "Buy" ELSE "Sell")
              ELSE None

\* h_pct = 1, h_periods = 3: the fourth Above tick, after None, None, Some(Buy)
C2_Witness ==
    /\ fromNew /\ pure = "Above"
    /\ sm.hysteresis_percentage = 1 /\ sm.hysteresis_periods = 3
    /\ nCalls = 4 /\ ret = None /\ lastEmit = "Buy" /\ prevEmit = "Buy"

\* C3: passing through Between does not clear last_emitted, and a signal is
\* never returned twice in a row: Buy is returned again only after a Sell was
\* returned in between (and symmetrically).
C3_LastEmittedPersists ==
    /\ (Classified /\ sm.state = "Between") => sm.last_signal = prev.last_signal
    /\ ret # None => prevEmit # ret

\* Buy was returned, a Between tick followed, and Above is held again for
\* h_periods or more: no second Buy
C3_Witness ==
    /\ lastEmit = "Buy" /\ viaBetween
    /\ cls = "Above" /\ sm.hysteresis_periods >= 1
    /\ sm.time_in_state >= sm.hysteresis_periods
    /\ ret = None

\* C4: update(short, long) with long = 0 returns None and leaves state,
\* time_in_state and last_signal unchanged, for every short and every machine.
C4_ZeroLongNoOp ==
    (nCalls > 0 /\ in[2] = 0) => (ret = None /\ sm = prev)

\* a machine beyond its threshold that has not emitted: any classified input
\* would have changed it
C4_Witness ==
    /\ nCalls > 0 /\ in[2] = 0 /\ in[1] # 0
    /\ sm.state = "Above" /\ sm.last_signal = None
    /\ sm.time_in_state >= sm.hysteresis_periods

\* C5: the classification is strict: Above exactly when pct > h_pct, Below
\* exactly when pct < -h_pct; pct = h_pct and pct = -h_pct are Between and
\* return no signal.
C5_StrictClassification ==
    Classified =>
        /\ sm.state = "Above" <=> FracGt(LastPct, LastH)
        /\ sm.state = "Below" <=> FracLt(LastPct, 0 - LastH)
        /\ (FracEq(LastPct, LastH) \/ FracEq(LastPct, 0 - LastH)) =>
               (sm.state = "Between" /\ ret = None)

\* pct = h_pct exactly, for a machine that one more Above tick would have
\* made emit Buy
C5_Witness ==
    /\ Classified /\ FracEq(LastPct, LastH)
    /\ prev.state = "Above" /\ prev.last_signal = None
    /\ prev.time_in_state + 1 >= prev.hysteresis_periods
    /\ sm.state = "Between"

\* C6: Some(Buy) is returned only in state Above with time_in_state >=
\* h_periods, Some(Sell) only in state Below with time_in_state >= h_periods,
\* and an input that classifies as Between returns None.
C6_EmissionRule ==
    /\ ret = "Buy" => (sm.state = "Above" /\ sm.time_in_state >= sm.hysteresis_periods)
    /\ ret = "Sell" => (sm.state = "Below" /\ sm.time_in_state >= sm.hysteresis_periods)
    /\ (Classified /\ ~FracGt(LastPct, LastH) /\ ~FracLt(LastPct, 0 - LastH)) => ret = None

\* a Sell returned by a fresh machine on the second Below tick
C6_Witness ==
    /\ fromNew /\ ret = "Sell" /\ sm.hysteresis_periods = 2
    /\ sm.time_in_state = 2 /\ pure = "Below"


(***************************************************************************)
(* Shutdown and teardown of the loops                                      *)
(***************************************************************************)
TeardownNames == {TeardownCalls[i] : i \in 1 .. Len(TeardownCalls)}

\* how many times the native call `name` has been issued
Count(name) == Cardinality({i \in 1 .. Len(calls) : calls[i] = name})

IsTeardownCall(c) == c \in TeardownNames

\* the unsubscribe/disconnect calls issued so far, in order
TeardownIssued == SelectSeq(calls, IsTeardownCall)

\* C7: once the loop has observed the shutdown command, no step submits a
\* transaction or updates an instrument's state machine, and the loop is never
\* again at a position of the evaluation (select, check, short .. sleep).
C7_NoWorkAfterObserved ==
    [][/\ observed => /\ observed'
                      /\ instruments' = instruments
                      /\ transactions' = transactions
       /\ observed' => pc' \notin RunningPCs]_vars

\* a loop that emitted a signal, then observed the command and stopped
C7_Witness ==
    /\ observed
    /\ pc = "stopped"
    /\ \E i \in 1 .. Len(instruments) : instruments[i].last_signal # None

\* C8: in every execution each call of the teardown sequence (unsubscribe orders,
\* unsubscribe trades, disconnect) is issued at most once, and exactly once by
\* the time an execution that observed the shutdown command has ended.
C8_TeardownOnce ==
    /\ \A n \in TeardownNames : Count(n) <= 1
    /\ (observed /\ Terminated) => \A n \in TeardownNames : Count(n) = 1

\* the command was observed after a transaction, and the teardown has run
C8_Witness ==
    /\ observed
    /\ Terminated
    /\ Len(transactions) > 0
    /\ \A n \in TeardownNames : Count(n) = 1

\* C9: the teardown calls are issued in the order unsubscribe orders,
\* unsubscribe trades, disconnect, and once a loop that began the teardown has
\* ended all three were issued, whichever of them failed.
C9_TeardownOrder ==
    /\ \E n \in 0 .. Len(TeardownCalls) : TeardownIssued = SubSeq(TeardownCalls, 1, n)
    /\ (Terminated /\ TeardownIssued # <<>>) => TeardownIssued = TeardownCalls

\* the first two steps failed and the disconnect was still issued
C9_Witness ==
    /\ observed
    /\ pc = "stopped"
    /\ {"unsubscribe_orders", "unsubscribe_trades"} \subseteq failed_calls
    /\ TeardownIssued = TeardownCalls

\* C10: a shutdown command delivered while the loop is Running leads to the loop
\* having observed it, issued the three teardown calls and stopped.
C10_ShutdownCompletes ==
    deliveredRunning ~> (observed /\ pc = "stopped" /\ TeardownIssued = TeardownCalls)


(***************************************************************************)
(* What ends the loop, and what a failure inside a tick does               *)
(***************************************************************************)
\* C11: the loop leaves Running only in a step in which the shutdown command
\* has been observed; no failure of an indicator, database, submission or
\* other native call takes it out of Running.
C11_OnlyShutdownEnds ==
    [][(Running /\ ~Running') => observed']_vars

\* positions of the evaluation of one instrument
EvalPCs == {"short", "long", "price", "insert", "broadcast"}

\* index of the instrument under evaluation (run_main_loop has a single one)
CurIdx == IF variant = "main" THEN 1 ELSE idx

\* C12: while an instrument is evaluated, every step that does not observe the
\* shutdown command (a failed indicator, last-price, persistence or submission
\* call included) stays with that instrument, moves on to the next instrument
\* of the list, or ends the tick after the last one.
C12_TickCoversAll ==
    [][(pc \in EvalPCs /\ ~observed') =>
          \/ pc' \in EvalPCs /\ idx' = idx
          \/ CurIdx < Len(instruments) /\ pc' = "short" /\ idx' = idx + 1
          \/ CurIdx = Len(instruments) /\ pc' = "sleep"]_vars


(***************************************************************************)
(* The indicator computation                                               *)
(***************************************************************************)
\* C13: when the data source answers, Ema::calc returns the insufficient-data
\* error whenever the number of candles differs from the window (fewer or
\* more), and Ok(value) when the two are equal.
C13_CountMustMatch ==
    (op = "calc" /\ args.db_ok) =>
        IF args.data_len = args.period_quantity
        THEN result.ok /\ result.value = args.value
        ELSE ~result.ok /\ result.error = "NoData"

\* one candle more than the window is rejected
C13_Witness ==
    /\ op = "calc"
    /\ args.db_ok
    /\ args.data_len = args.period_quantity + 1
    /\ result.error = "NoData"

\* C14: after an indicator computation failed for lack of data the loop is
\* still Running and no unsubscribe and no disconnect has been issued.
C14_NoDataKeepsSession ==
    calc_error = "NoData" => (Running /\ TeardownIssued = <<>>)

\* C15: the candles are handed to the accumulator in ascending order of
\* candle_start, the most recent candle last.
C15_OldestFirst ==
    op = "get_candles" =>
        /\ \A i, j \in 1 .. Len(result.fed) : i < j => result.fed[i] < result.fed[j]
        /\ result.fed # <<>> =>
              \A t \in args.candle_times : t <= result.fed[Len(result.fed)]

(***************************************************************************)
(* Startup and the native calls                                            *)
(***************************************************************************)
\* connect or a link probe has reported that there is no session
SessionRefused ==
    \/ Len(startup_results) >= 1
          /\ startup_results[1] \in {"Failed", "TerminalNotFound", "DllVersionNotSupported"}
    \/ Len(startup_results) >= 2 /\ startup_results[2] = "DllNotConnected"
    \/ Len(startup_results) >= 3 /\ startup_results[3] = "QuikNotConnected"

\* C16: once connect has reported a failure kind, or a link probe has reported
\* not-connected, the startup has failed: it takes no further step towards
\* Running.
C16_StartupNeedsSession ==
    SessionRefused => pc = "failed"

\* connect has answered AlreadyConnectedToQuik
AlreadyConnected ==
    Len(startup_results) >= 1 /\ startup_results[1] = "AlreadyConnectedToQuik"

\* C17: after connect answered already-connected the startup has not failed:
\* it is at one of its remaining steps (it ends with the loop Running).
C17_AlreadyConnectedContinues ==
    AlreadyConnected => pc = "startup"

\* connect answered already-connected and only the last startup call remains
C17_Witness ==
    /\ AlreadyConnected
    /\ pc = "startup"
    /\ Len(calls) = Len(StartupCalls) - 1

\* the result kind of each native code, as the specification lists them
KindOf(code) ==
    CASE code = 0 -> "Success"
      [] code = 1 -> "Failed"
      [] code = 2 -> "TerminalNotFound"
      [] code = 3 -> "DllVersionNotSupported"
      [] code = 4 -> "AlreadyConnectedToQuik"
      [] code = 5 -> "WrongSyntax"
      [] code = 6 -> "QuikNotConnected"
      [] code = 7 -> "DllNotConnected"
      [] code = 8 -> "QuikConnected"
      [] code = 9 -> "QuikDisconnected"
      [] code = 10 -> "DllConnected"
      [] code = 11 -> "DllDisconnected"
      [] code = 12 -> "MemoryAllocationError"
      [] code = 13 -> "WrongConnectionHandle"
      [] code = 14 -> "WrongInputParams"
      [] OTHER -> "Unknown"

\* C18: Trans2QuikResult::from maps each code 0..14 to its own variant, no two
\* codes to the same one, and every other integer to Unknown.
C18_MappingTotal ==
    /\ op = "from" => result.kind = KindOf(args.code)
    /\ \A c, d \in 0 .. 14 : c # d => KindOf(c) # KindOf(d)
    /\ \A c \in 0 .. 14 : KindOf(c) # "Unknown"

\* a negative code was mapped
C18_Witness ==
    /\ op = "from"
    /\ args.code < 0
    /\ result.kind = "Unknown"

\* C19: connect, disconnect, is_dll_connected and is_quik_connected return Ok
\* with the kind of exactly the code the native function returned; a code
\* other than 0 is never reported as Success.
C19_WrapperSurfacesKind ==
    op \in Wrappers =>
        /\ result.ok
        /\ result.kind = KindOf(args.code)
        /\ args.code # 0 => result.kind # "Success"

\* connect with the native function returning 1
C19_Witness ==
    /\ op = "connect"
    /\ args.code = 1
    /\ result.kind = "Failed"

\* the text of the buffer (its bytes before the first NUL) holds a byte that
\* is not UTF-8
InvalidText(buffer) ==
    \E i \in 1 .. Len(buffer) :
        buffer[i] < 0 /\ \A j \in 1 .. i - 1 : buffer[j] # 0

NoNul(buffer) == \A i \in 1 .. Len(buffer) : buffer[i] # 0

\* C20: whatever the message buffer holds, a wrapper returns Ok with the kind
\* of the native code; a text that is not UTF-8 becomes the placeholder, and a
\* buffer without NUL is taken whole.
C20_MessageNeverFailsCall ==
    op \in Wrappers =>
        /\ result.ok
        /\ result.kind = KindOf(args.code)
        /\ InvalidText(args.buffer) => result.message = Placeholder
        /\ (NoNul(args.buffer) /\ ~InvalidText(args.buffer)) =>
              result.message = args.buffer

\* a failure code with a buffer that has no NUL and is not UTF-8
C20_Witness ==
    /\ op \in Wrappers
    /\ args.code = 1
    /\ NoNul(args.buffer)
    /\ InvalidText(args.buffer)
    /\ result.kind = "Failed"
    /\ result.message = Placeholder


(***************************************************************************)
(* The state machine over sequences of updates                             *)
(***************************************************************************)
\* C27: over any sequence of updates, consecutive returned signals alternate
\* in direction: a Some(Buy) is followed, as the next returned signal, by a
\* Some(Sell), and a Some(Sell) by a Some(Buy).
C27_SignalsAlternate ==
    (ret \in Signals /\ prevEmit \in Signals) => {ret, prevEmit} = Signals

\* a Buy returned after a Sell, with a Between input between the two
C27_Witness ==
    /\ ret = "Buy" /\ prevEmit = "Sell" /\ lastEmit = "Buy"
    /\ prev.state = "Between" /\ nCalls >= 3

\* the classification of the last input, as update computes it
NewClass == new_state(prev, in[1], in[2])

\* C28 as stated: for long # 0, if the new classification equals the current
\* state the counter after the call is the previous counter plus 1, otherwise
\* the state is the new classification and the counter is 1.
C28_TransitionAsStated ==
    Classified =>
        IF NewClass = prev.state
        THEN sm.time_in_state = prev.time_in_state + 1
        ELSE sm.state = NewClass /\ sm.time_in_state = 1

\* C28 amended: for long # 0 and a new classification Above or Below, the
\* counter after the call is the previous counter plus 1 when the
\* classification equals the current state, and otherwise the state is the
\* new classification and the counter is 1; for a new classification Between
\* the state after the call is Between and the counter is 0.
C28_Transition ==
    Classified =>
        /\ sm.state = NewClass
        /\ sm.time_in_state =
              IF NewClass = "Between" THEN 0
              ELSE IF NewClass = prev.state THEN prev.time_in_state + 1
              ELSE 1

\* a change from Below, held for two ticks, to Above: the counter restarts
C28_Witness ==
    /\ Classified /\ NewClass = "Above"
    /\ prev.state = "Below" /\ prev.time_in_state = 2
    /\ sm.state = "Above" /\ sm.time_in_state = 1

\* C29: in every state reachable from a fresh machine, state = Between
\* implies time_in_state = 0, and state Above or Below implies time_in_state
\* >= 1 and time_in_state equal to the number of consecutive classified
\* updates (long # 0) that classified as that state.
C29_CounterIsRunLength ==
    fromNew =>
        /\ sm.state = "Between" => sm.time_in_state = 0
        /\ sm.state \in Extremes =>
              (sm.time_in_state >= 1 /\ sm.time_in_state = runLen /\ sm.state = runCls)

\* the second Above tick of a run that follows a Between tick and has a call
\* with long = 0 inside it
C29_Witness ==
    /\ fromNew /\ viaBetween /\ cls = "NoOp" /\ nCalls >= 4
    /\ sm.state = "Above" /\ sm.time_in_state = 2 /\ runLen = 2

\* C30: for h_periods >= 1 and a machine reachable from a fresh one, whenever
\* update returns Some(signal) time_in_state after the call equals h_periods.
C30_EmitsAtThresholdOnly ==
    (fromNew /\ sm.hysteresis_periods >= 1 /\ ret # None) =>
        sm.time_in_state = sm.hysteresis_periods

\* Sell returned on the second Below tick after a Buy on the second Above tick
C30_Witness ==
    /\ fromNew /\ sm.hysteresis_periods = 2
    /\ ret = "Sell" /\ prevEmit = "Buy" /\ sm.time_in_state = 2 /\ nCalls = 4


(***************************************************************************)
(* Callbacks, transactions and notifications of the loops                  *)
(***************************************************************************)
CallbackNames == {"set_connection_status_callback", "set_transactions_reply_callback"}
SendNames == {"send_async_transaction", "send_sync_transaction"}

\* C21: the connection-status callback and the transaction-reply callback are
\* each registered at most once, exactly once in every execution that got
\* past the startup, and both registrations precede the first transaction
\* submission.
C21_CallbacksOnceBeforeSend ==
    /\ \A cb \in CallbackNames : Count(cb) <= 1
    /\ (Running \/ transactions # <<>>) => \A cb \in CallbackNames : Count(cb) = 1
    /\ \A i \in 1 .. Len(calls) :
          calls[i] \in SendNames =>
             \A cb \in CallbackNames : \E j \in 1 .. (i - 1) : calls[j] = cb

\* two transactions were submitted, after one registration of each callback
C21_Witness ==
    /\ Len(transactions) = 2
    /\ Count("send_async_transaction") = 2
    /\ \A cb \in CallbackNames : Count(cb) = 1

\* C22: one transaction mode for the lifetime of the process: the synchronous
\* send is never invoked once the reply callback is registered, and every
\* transaction the loop submits goes through the asynchronous send.
C22_OneTransactionMode ==
    /\ Count("set_transactions_reply_callback") > 0 => Count("send_sync_transaction") = 0
    /\ Count("send_async_transaction") = Len(transactions)

\* a Buy and then a Sell were submitted, both with the asynchronous send
C22_Witness ==
    /\ transactions = <<"B", "S">>
    /\ Count("set_transactions_reply_callback") = 1
    /\ calls[Len(calls)] = "send_async_transaction"

\* update returned Some(signal) for instrument i in this step: last_signal is
\* written exactly when a signal is returned, and always with another value
Returned(i) == instruments'[i].last_signal # instruments[i].last_signal

\* C23: every Some(signal) returned by an instrument's state machine leads to
\* exactly one transaction submission with the matching direction (Buy ->
\* operation B, Sell -> operation S), and no transaction is submitted when
\* update returned None.
C23_SignalSubmitsOnce ==
    [][/\ \A i \in DOMAIN instruments :
             Returned(i) =>
                transactions' = Append(transactions,
                                       IF instruments'[i].last_signal = "Buy" THEN "B" ELSE "S")
       /\ transactions' # transactions => \E i \in DOMAIN instruments : Returned(i)]_vars

\* C24: the broadcast is called exactly once per returned signal, also when
\* the shutdown command arrives while the tick is in progress: a signal that
\* update returned stays pending until its broadcast call, and no broadcast is
\* called without a signal.
C24_BroadcastOncePerSignal ==
    /\ [](pc = "broadcast" => signal # None)
    /\ [][(signal # None /\ signal' = None) => pc = "broadcast"]_vars

\* C25: while the loop is Running, every reply, order or trade event handed
\* off by the native callback thread is eventually received by the loop.
C25_EventsReceived ==
    (callback_events > 0) ~> (callback_events = 0 \/ ~Running)

C37_TradingHours ==
    op = "is_trading_time" =>
        LET weekend == args.weekday \in {"Sat", "Sun"}
            start == IF weekend THEN 6 ELSE 3
            end == IF weekend THEN 16 ELSE 24
        IN  /\ result.hours = <<start, end>>
            /\ result.trading <=> (start < args.hour /\ args.hour < end)

\* C38: each boolean wrapper of connector.rs returns true exactly when the
\* native call returned the code the wrapper reports as its success outcome
\* (0 for disconnect and set_connection_status_callback, 8 for
\* is_quik_connected, 10 for is_dll_connected), false for every other code.
C38_ConnectorBool ==
    op = "connector" => (result.ret <=> (args.code = connector_success(args.name)))


(***************************************************************************)
(* The window and the Shutdown command                                     *)
(***************************************************************************)
\* C39: the GUI sends Shutdown only after the user confirmed closing: a close
\* request while allowed_to_close is false is cancelled and opens the
\* confirmation dialog without sending anything, answering No leaves
\* allowed_to_close false, and Shutdown is sent only on a close request made
\* after Yes set allowed_to_close to true.
C39_ShutdownAfterConfirmation ==
    /\ (last_frame.close_requested /\ ~last_frame.allowed_before) =>
          (last_frame.cancelled /\ last_frame.opened /\ ~last_frame.sent
           /\ viewport = "open")
    /\ last_frame.click = "No" => ~app.allowed_to_close
    /\ last_frame.sent =>
          (last_frame.close_requested /\ last_frame.allowed_before /\ said_yes)
    /\ commands_sent > 0 => said_yes
    /\ app.allowed_to_close => said_yes

\* the user answered No to a first close request and Yes to a later one; the
\* close request that followed sent Shutdown
C39_Witness ==
    /\ viewport = "closed" /\ last_frame.sent /\ commands_sent = 1
    /\ said_no /\ said_yes /\ frames >= 5


(***************************************************************************)
(* Instruments within a tick, transaction ids                              *)
(***************************************************************************)
\* C31: when the evaluation of an instrument fails (an indicator computation
\* or the last-price lookup), the step leaves every signal state as it was,
\* and a signal state changes only in the evaluation of its own instrument:
\* in the step that calls update for it, without an error.
C31_FailureLeavesState ==
    [][/\ calc_error' # None => instruments' = instruments
       /\ \A i \in DOMAIN instruments :
             instruments'[i] # instruments[i] =>
                (/\ i = CurIdx
                 /\ calc_error' = None
                 /\ pc = IF variant = "trade" THEN "price" ELSE "long")]_vars

\* the last-price lookup failed for the first instrument, which had been
\* Above for four ticks, and the second instrument is up next
C31_Witness ==
    /\ variant = "trade" /\ calc_error = "Price" /\ pc = "short" /\ idx = 2
    /\ instruments[1].state = "Above" /\ instruments[1].time_in_state = 4
    /\ instruments[2].state = "Below"

\* C32: within one tick of `trade` the instruments are evaluated in the order
\* of the list, each at most once, from the first one in every tick: the index
\* of the instrument under evaluation only goes up by one or back to none.
C32_ListOrder ==
    [][variant = "trade" =>
          /\ (pc' = "short" /\ <<pc, idx>> # <<pc', idx'>>) => idx' = idx + 1
          /\ idx' # idx => (idx' = idx + 1 \/ idx' = 0)
          /\ (pc = "select" /\ pc' = "short") => idx' = 1
          /\ pc' \in EvalPCs => idx' \in 1 .. Len(instruments)]_vars

\* the second instrument is evaluated after the long EMA of the first failed
C32_Witness ==
    /\ variant = "trade" /\ idx = 2 /\ pc = "long" /\ short_ema # Unset
    /\ instruments[2].time_in_state = 2 /\ instruments[1].time_in_state = 1

\* the transactions submitted so far, as their strings
Submitted == [i \in 1 .. Len(transactions) |-> transaction_str(transactions[i])]

\* C36: every transaction submitted during one process lifetime carries a
\* transaction id different from the id of every other submitted transaction.
C36_DistinctTransactionIds ==
    \A i, j \in 1 .. Len(Submitted) :
       i # j => Submitted[i].TRANS_ID # Submitted[j].TRANS_ID


(***************************************************************************)
(* The terminal lock and the callback channels of `trade`                  *)
(***************************************************************************)
\* bot.rs 99-110, 160-170: `let terminal_guard = terminal.lock().await` is
\* alive from the first line of the startup block to its end, and from the
\* first line of the Shutdown arm to `break`
TeardownPCs == {TeardownCalls[i] : i \in 1 .. Len(TeardownCalls)}

terminal_guard == variant = "trade" /\ pc \in {"startup"} \cup TeardownPCs

\* the native calls made so far under the guard that is held
guard_calls ==
    IF ~terminal_guard THEN 0
    ELSE IF pc = "startup" THEN Len(calls)
    ELSE (CHOOSE i \in 1 .. Len(TeardownCalls) : TeardownCalls[i] = pc) - 1

\* where the loop is suspended: select!, the EMA and price queries, the insert,
\* the broadcast, the sleep
AwaitPCs == {"select", "short", "long", "price", "insert", "broadcast", "sleep"}

\* C33: each acquisition of the terminal lock by `trade` covers a single native
\* call, and the lock is not held where the loop is suspended.
C33_LockPerCall ==
    /\ guard_calls <= 1
    /\ terminal_guard => pc \notin AwaitPCs

\* C34: the queue between the callback thread and the loop is bounded: a fixed
\* capacity, here any one below the number of events the callback thread hands
\* off, limits the number of events waiting in it.
C34_QueueBounded == callback_events < MaxEvents

\* C35: no callback event is lost at startup: no callback is invoked before the
\* sender of its channel has been installed.
C35_NoEventLostAtStartup == lost_events = 0

=============================================================================
